---- MODULE Spec2Model ----
(***************************************************************************)
(* DrugCentralTransform.run of kg_covid_19/transform_utils/drug_central:   *)
(* one pass over a gzip-compressed, tab-separated interactions file that   *)
(* writes a node file and an edge file.                                    *)
(*                                                                         *)
(* A string is a sequence of characters.  The characters "\t", "\n", " ",  *)
(* "|" and "\"" are the ones the code looks at; every other element of a   *)
(* sequence is a run of characters the code treats as opaque text.         *)
(***************************************************************************)
EXTENDS Integers, Sequences, FiniteSets, TLC

(* ---------------------------- bounds ----------------------------------- *)
MaxRows == 2
MaxRuns == 2

(* ---------------------------- str methods ------------------------------ *)
TAB == "\t"
NL == "\n"
QUOTE == "\""
PIPE == "|"
Whitespace == {" ", TAB, NL}

\* str.strip(): drop leading and trailing whitespace characters.
Strip(s) ==
    LET keep == {i \in 1..Len(s) : s[i] \notin Whitespace}
    IN  IF keep = {} THEN <<>>
        ELSE LET lo == CHOOSE i \in keep : \A j \in keep : i <= j
                 hi == CHOOSE i \in keep : \A j \in keep : j <= i
             IN  SubSeq(s, lo, hi)

\* str.split(sep): always at least one piece, empty pieces are kept.
RECURSIVE Split(_, _)
Split(s, sep) ==
    LET at == {i \in 1..Len(s) : s[i] = sep}
    IN  IF at = {} THEN <<s>>
        ELSE LET i == CHOOSE k \in at : \A j \in at : k <= j
             IN  <<SubSeq(s, 1, i - 1)>> \o Split(SubSeq(s, i + 1, Len(s)), sep)

\* sep.join(parts)
RECURSIVE Join(_, _)
Join(parts, sep) ==
    IF Len(parts) = 0 THEN <<>>
    ELSE IF Len(parts) = 1 THEN parts[1]
    ELSE parts[1] \o <<sep>> \o Join(Tail(parts), sep)

\* i.replace('"', '')
RemoveQuotes(s) == SelectSeq(s, LAMBDA c : c # QUOTE)

\* The lines of a text file, without their line ends.
FileLines(f) ==
    IF f = <<>> THEN <<>>
    ELSE LET p == Split(f, NL)
         IN  IF p[Len(p)] = <<>> THEN SubSeq(p, 1, Len(p) - 1) ELSE p

IsPrefix(a, b) == Len(a) <= Len(b) /\ SubSeq(b, 1, Len(a)) = a

RECURSIVE Flatten(_)
Flatten(ss) == IF Len(ss) = 0 THEN <<>> ELSE ss[1] \o Flatten(Tail(ss))

(* ---------------------------- constants of run ------------------------- *)
source_name == <<"drug_central">>
default_species == <<"Homo", " ", "sapiens">>
drug_node_type == <<"biolink:Drug">>
gene_curie_prefix == <<"UniProtKB:">>
drug_curie_prefix == <<"DrugCentral:">>
gene_node_type == <<"biolink:Gene">>
drug_gene_edge_label == <<"biolink:interacts_with">>
drug_gene_edge_relation == <<"RO:0002436">>
node_header == << <<"id">>, <<"name">>, <<"category">> >>
edge_header == << <<"subject">>, <<"edge_label">>, <<"object">>, <<"relation">>,
                  <<"provided_by">>, <<"comment">> >>

ORGANISM == <<"ORGANISM">>
ACCESSION == <<"ACCESSION">>
STRUCT_ID == <<"STRUCT_ID">>
DRUG_NAME == <<"DRUG_NAME">>
GENE == <<"GENE">>
ACT_COMMENT == <<"ACT_COMMENT">>

(* ---------------------------- utils.transform_utils -------------------- *)
\* parse_header(header_string): strip, split on tab, drop the quotes.
parse_header(header_string) ==
    LET h == Split(Strip(header_string), TAB)
    IN  [i \in 1..Len(h) |-> RemoveQuotes(h[i])]

\* data_to_dict(keys, values): pairs the header with the fields by position;
\* a field count different from the header count is a data-shape error.
data_to_dict(these_keys, these_values) ==
    IF Len(these_keys) # Len(these_values)
    THEN [ok |-> FALSE, dict |-> <<>>]
    ELSE [ok |-> TRUE,
          dict |-> [k \in {these_keys[i] : i \in 1..Len(these_keys)} |->
                      these_values[CHOOSE i \in 1..Len(these_keys) :
                          /\ these_keys[i] = k
                          /\ \A j \in 1..Len(these_keys) :
                                these_keys[j] = k => j <= i]]]

\* get_item_by_priority(items_dict, keys_by_priority): the value of the first
\* key that is present and not empty; ItemInDictNotFound when there is none.
get_item_by_priority(d, keys_by_priority) ==
    LET hits == {i \in 1..Len(keys_by_priority) :
                    /\ keys_by_priority[i] \in DOMAIN d
                    /\ d[keys_by_priority[i]] # <<>>}
    IN  IF hits = {} THEN [found |-> FALSE, value |-> <<>>]
        ELSE [found |-> TRUE,
              value |-> d[keys_by_priority[CHOOSE i \in hits :
                                              \A j \in hits : i <= j]]]

\* write_node_edge_item(fh, header, data): one tab-joined line appended to fh;
\* a value count different from the header length is fatal.
write_node_edge_item(fh, header, data) ==
    IF Len(header) # Len(data)
    THEN [ok |-> FALSE, fh |-> fh]
    ELSE [ok |-> TRUE, fh |-> fh \o Join(data, TAB) \o <<NL>>]

(* ---------------------------- drug_central.py -------------------------- *)
\* parse_drug_central_line(this_line, header_items)
parse_drug_central_line(this_line, header_items) ==
    LET data == Split(Strip(this_line), TAB)
        clean == [i \in 1..Len(data) |-> RemoveQuotes(data[i])]
    IN  data_to_dict(header_items, clean)

(* ---------------------------- the input archive ------------------------ *)
\* Column names of drug.target.interaction.tsv that run looks at.
Columns == <<DRUG_NAME, STRUCT_ID, GENE, ACCESSION, ORGANISM, ACT_COMMENT>>

\* Data rows, one field per column of Columns.
Records ==
    { << <<"Foo">>, <<"99">>, <<"BAR">>, <<"P1", PIPE, "Q2">>,
         <<QUOTE, "Homo", " ", "sapiens", QUOTE>>, <<"inhibits">> >>,
      << <<"Foo">>, <<"99">>, <<"BAR">>, <<"P1">>,
         <<"homo", " ", "sapiens">>, <<"inhibits">> >>,
      << <<"Foo">>, <<"99">>, <<"BAR">>, <<>>,
         <<"Homo", " ", "sapiens">>, <<"inhibits">> >>,
      << <<"Foo">>, <<>>, <<"BAR">>, <<"P1">>,
         <<"Homo", " ", "sapiens">>, <<"inhibits">> >>,
      << <<"Bar">>, <<"7">>, <<"BAZ">>, <<"P1">>,
         <<"Homo", " ", "sapiens">>, <<>> >> }

\* The archive has all the columns, or lacks one of them.
ColumnSets == {1..6} \cup {(1..6) \ {c} : c \in 1..6}

Project(fields, cols) ==
    LET F[i \in 0..6] ==
            IF i = 0 THEN <<>>
            ELSE IF i \in cols THEN Append(F[i - 1], fields[i]) ELSE F[i - 1]
    IN  Join(F[6], TAB)

\* The header line quotes its names, as the published file does.
HeaderFields == [i \in 1..6 |-> <<QUOTE>> \o Columns[i] \o <<QUOTE>>]

\* The data lines of an archive with the columns cols; one of them is blank.
DataLines(cols) == {Project(r, cols) : r \in Records} \cup {<<>>}

\* A file: the header line, then at most MaxRows data lines.
Archives ==
    UNION { { <<Project(HeaderFields, cols)>> \o ls :
                ls \in [1..n -> DataLines(cols)] } :
            n \in 0..MaxRows, cols \in ColumnSets }

\* The species argument: the default, or another spelling of it.
SpeciesChoices == {default_species, <<"homo", " ", "sapiens">>}

(* ---------------------------- state ------------------------------------ *)
VARIABLES
    interactions,    \* lines of drug.target.interaction.tsv.gz
    archive_exists,  \* whether gzip.open can open it
    species,         \* run's species argument
    node_exists, node,   \* self.output_node_file and its text
    edge_exists, edge,   \* self.output_edge_file and its text
    pc, err, runs,
    header_items, pos, line, items_dict, gene_ids, gene_idx, gene_id, drug_id,
    passed,              \* rows of this run that got a drug_id
    row_node, row_edge,  \* the files when the current row was read
    prev_node, prev_edge, prev_arch, run_arch   \* the previous run's result

vars == <<interactions, archive_exists, species, node_exists, node, edge_exists,
          edge, pc, err, runs, header_items, pos, line, items_dict, gene_ids,
          gene_idx, gene_id, drug_id, passed, row_node, row_edge, prev_node,
          prev_edge, prev_arch, run_arch>>

files == <<node_exists, node, edge_exists, edge>>
env == <<interactions, archive_exists, species>>
locals == <<header_items, pos, line, items_dict, gene_ids, gene_idx, gene_id,
            drug_id>>
ghosts == <<passed, row_node, row_edge, prev_node, prev_edge, prev_arch, run_arch>>
row_locals == <<items_dict, gene_ids, gene_idx, gene_id, drug_id>>

Init ==
    /\ interactions \in Archives
    /\ archive_exists = TRUE
    /\ species \in SpeciesChoices
    /\ node_exists = FALSE /\ node = <<>>
    /\ edge_exists = FALSE /\ edge = <<>>
    /\ pc = "idle" /\ err = "none" /\ runs = 0
    /\ header_items = <<>> /\ pos = 0 /\ line = <<>> /\ items_dict = <<>>
    /\ gene_ids = <<>> /\ gene_idx = 0 /\ gene_id = <<>> /\ drug_id = <<>>
    /\ passed = 0 /\ row_node = <<>> /\ row_edge = <<>>
    /\ prev_node = <<>> /\ prev_edge = <<>> /\ prev_arch = TRUE /\ run_arch = TRUE

Raise(e) == pc' = "raised" /\ err' = e

(* ---------------------------- run -------------------------------------- *)
\* The archive is removed between two runs.
DeleteArchive ==
    /\ pc \in {"idle", "done", "raised"}
    /\ archive_exists
    /\ archive_exists' = FALSE
    /\ UNCHANGED <<interactions, species, files, pc, err, runs, locals, ghosts>>

\* run is called: lines 36-46.
Run ==
    /\ pc \in {"idle", "done", "raised"}
    /\ runs < MaxRuns
    /\ runs' = runs + 1
    /\ pc' = "open_node" /\ err' = "none"
    /\ header_items' = <<>> /\ pos' = 0 /\ line' = <<>> /\ items_dict' = <<>>
    /\ gene_ids' = <<>> /\ gene_idx' = 0 /\ gene_id' = <<>> /\ drug_id' = <<>>
    /\ passed' = 0 /\ row_node' = <<>> /\ row_edge' = <<>>
    /\ prev_node' = node /\ prev_edge' = edge
    /\ prev_arch' = run_arch /\ run_arch' = archive_exists
    /\ UNCHANGED <<env, files>>

\* open(self.output_node_file, 'a'): the file is kept, not truncated.
OpenNodeAppend ==
    /\ pc = "open_node"
    /\ node_exists' = TRUE /\ node' = node
    /\ pc' = "open_edge"
    /\ UNCHANGED <<env, edge_exists, edge, err, runs, locals, ghosts>>

\* open(self.output_node_file, 'w')
OpenNode ==
    /\ pc = "open_node"
    /\ node_exists' = TRUE /\ node' = <<>>
    /\ pc' = "open_edge"
    /\ UNCHANGED <<env, edge_exists, edge, err, runs, locals, ghosts>>

\* open(self.output_edge_file, 'a'): the file is kept, not truncated.
OpenEdgeAppend ==
    /\ pc = "open_edge"
    /\ edge_exists' = TRUE /\ edge' = edge
    /\ pc' = "open_input"
    /\ UNCHANGED <<env, node_exists, node, err, runs, locals, ghosts>>

\* open(self.output_edge_file, 'w')
OpenEdge ==
    /\ pc = "open_edge"
    /\ edge_exists' = TRUE /\ edge' = <<>>
    /\ pc' = "open_input"
    /\ UNCHANGED <<env, node_exists, node, err, runs, locals, ghosts>>

\* gzip.open(interactions_file, 'rt')
OpenInput ==
    /\ pc = "open_input"
    /\ IF archive_exists
       THEN pc' = "node_header" /\ err' = err
       ELSE Raise("FileNotFoundError")
    /\ UNCHANGED <<env, files, runs, locals, ghosts>>

\* node.write("\t".join(self.node_header) + "\n")
WriteNodeHeader ==
    /\ pc = "node_header"
    /\ node' = node \o Join(node_header, TAB) \o <<NL>>
    /\ pc' = "edge_header"
    /\ UNCHANGED <<env, node_exists, edge_exists, edge, err, runs, locals, ghosts>>

\* node.write("\t".join(self.edge_header) + "\n"): the wrong handle.
WriteEdgeHeaderToNode ==
    /\ pc = "edge_header"
    /\ node' = node \o Join(edge_header, TAB) \o <<NL>>
    /\ pc' = "read_header"
    /\ UNCHANGED <<env, node_exists, edge, edge_exists, err, runs, locals, ghosts>>

\* edge.write("\t".join(self.edge_header) + "\n")
WriteEdgeHeader ==
    /\ pc = "edge_header"
    /\ edge' = edge \o Join(edge_header, TAB) \o <<NL>>
    /\ pc' = "read_header"
    /\ UNCHANGED <<env, node_exists, node, edge_exists, err, runs, locals, ghosts>>

\* header_items = parse_header(interactions.readline())
ReadHeader ==
    /\ pc = "read_header"
    /\ header_items' = parse_header(IF Len(interactions) = 0 THEN <<>>
                                    ELSE interactions[1] \o <<NL>>)
    /\ pc' = "loop"
    /\ UNCHANGED <<env, files, err, runs, pos, line, row_locals, ghosts>>

\* for line in interactions: the next data line, or the end of the with block.
NextLine ==
    /\ pc = "loop"
    /\ IF pos + 1 < Len(interactions)
       THEN /\ pos' = pos + 1
            /\ line' = interactions[pos + 2] \o <<NL>>
            /\ row_node' = node /\ row_edge' = edge
            /\ pc' = "parse"
       ELSE /\ pc' = "done"
            /\ UNCHANGED <<pos, line, row_node, row_edge>>
    /\ UNCHANGED <<env, files, err, runs, header_items, row_locals, passed,
                   prev_node, prev_edge, prev_arch, run_arch>>

\* A data-shape error that is swallowed: the header is paired with as many
\* fields as there are, and the row goes on.
ParseLineLenient ==
    /\ pc = "parse"
    /\ LET data == Split(Strip(line), TAB)
           n == IF Len(data) < Len(header_items) THEN Len(data)
                ELSE Len(header_items)
       IN  items_dict' = data_to_dict(SubSeq(header_items, 1, n),
                                      [i \in 1..n |-> RemoveQuotes(data[i])]).dict
    /\ pc' = "filter"
    /\ UNCHANGED <<env, files, err, runs, header_items, pos, line, gene_ids,
                   gene_idx, gene_id, drug_id, ghosts>>

\* items_dict = parse_drug_central_line(line, header_items)
ParseLine ==
    /\ pc = "parse"
    /\ LET r == parse_drug_central_line(line, header_items)
       IN  IF r.ok
           THEN items_dict' = r.dict /\ pc' = "filter" /\ err' = err
           ELSE items_dict' = items_dict /\ Raise("DataShapeError")
    /\ UNCHANGED <<env, files, runs, header_items, pos, line, gene_ids, gene_idx,
                   gene_id, drug_id, ghosts>>

\* Without the presence test a row that has no ORGANISM passes the filter.
other_organism_no_presence_test(d, sp) == ORGANISM \in DOMAIN d /\ d[ORGANISM] # sp

\* 'ORGANISM' not in items_dict or items_dict['ORGANISM'] != species
other_organism(d, sp) == ORGANISM \notin DOMAIN d \/ d[ORGANISM] # sp

\* line 60-61: rows of another organism are skipped.
FilterOrganism ==
    /\ pc = "filter"
    /\ pc' = IF other_organism(items_dict, species) THEN "loop" ELSE "gene_ids"
    /\ UNCHANGED <<env, files, err, runs, locals, ghosts>>

\* Without the except clause ItemInDictNotFound leaves run.
GetGeneIdsNoExcept ==
    /\ pc = "gene_ids"
    /\ LET r == get_item_by_priority(items_dict, <<ACCESSION>>)
       IN  IF r.found
           THEN gene_ids' = Split(r.value, PIPE) /\ pc' = "drug_id" /\ err' = err
           ELSE gene_ids' = gene_ids /\ Raise("ItemInDictNotFound")
    /\ UNCHANGED <<env, files, runs, header_items, pos, line, items_dict,
                   gene_idx, gene_id, drug_id, ghosts>>

\* lines 64-70: the accessions of the row; rows without one are skipped.
GetGeneIds ==
    /\ pc = "gene_ids"
    /\ LET r == get_item_by_priority(items_dict, <<ACCESSION>>)
       IN  IF r.found
           THEN gene_ids' = Split(r.value, PIPE) /\ pc' = "drug_id"
           ELSE gene_ids' = gene_ids /\ pc' = "loop"
    /\ UNCHANGED <<env, files, err, runs, header_items, pos, line, items_dict,
                   gene_idx, gene_id, drug_id, ghosts>>

\* The STRUCT_ID lookup inside the try block: a row without one is skipped.
GetDrugIdInsideTry ==
    /\ pc = "drug_id"
    /\ LET r == get_item_by_priority(items_dict, <<STRUCT_ID>>)
       IN  IF r.found
           THEN /\ drug_id' = drug_curie_prefix \o r.value
                /\ passed' = passed + 1
                /\ pc' = "drug_node"
           ELSE /\ UNCHANGED <<drug_id, passed>>
                /\ pc' = "loop"
    /\ UNCHANGED <<env, files, err, runs, header_items, pos, line, items_dict,
                   gene_ids, gene_idx, gene_id, row_node, row_edge, prev_node,
                   prev_edge, prev_arch, run_arch>>

\* lines 73-74: drug_id = drug_curie_prefix + get_item_by_priority(.., ['STRUCT_ID'])
GetDrugId ==
    /\ pc = "drug_id"
    /\ LET r == get_item_by_priority(items_dict, <<STRUCT_ID>>)
       IN  IF r.found
           THEN /\ drug_id' = drug_curie_prefix \o r.value
                /\ passed' = passed + 1
                /\ pc' = "drug_node" /\ err' = err
           ELSE /\ UNCHANGED <<drug_id, passed>>
                /\ Raise("ItemInDictNotFound")
    /\ UNCHANGED <<env, files, runs, header_items, pos, line, items_dict, gene_ids,
                   gene_idx, gene_id, row_node, row_edge, prev_node, prev_edge,
                   prev_arch, run_arch>>

\* lines 80-82: data=[drug_id, items_dict['DRUG_NAME'], drug_node_type]
drug_node_data(id, d) == <<id, d[DRUG_NAME], drug_node_type>>

\* The gene node named by the drug.
gene_node_data_drug_name(id, d) == <<id, d[DRUG_NAME], gene_node_type>>

\* lines 88-90: data=[gene_id, items_dict['GENE'], gene_node_type]
gene_node_data(id, d) == <<id, d[GENE], gene_node_type>>

\* Subject and object exchanged.
edge_data_swapped(subject, object, d) ==
    <<object, drug_gene_edge_label, subject, drug_gene_edge_relation,
      source_name, d[ACT_COMMENT]>>

\* lines 97-102: data=[drug_id, drug_gene_edge_label, gene_id,
\* drug_gene_edge_relation, self.source_name, items_dict['ACT_COMMENT']]
edge_data(subject, object, d) ==
    <<subject, drug_gene_edge_label, object, drug_gene_edge_relation,
      source_name, d[ACT_COMMENT]>>

\* A missing DRUG_NAME that is caught: the row is dropped and the loop goes on.
WriteDrugNodeCatchKeyError ==
    /\ pc = "drug_node"
    /\ IF DRUG_NAME \notin DOMAIN items_dict
       THEN pc' = "loop" /\ UNCHANGED <<node, gene_idx>>
       ELSE /\ node' = write_node_edge_item(node, node_header,
                            drug_node_data(drug_id, items_dict)).fh
            /\ gene_idx' = 0 /\ pc' = "next_gene"
    /\ UNCHANGED <<env, node_exists, edge_exists, edge, err, runs, header_items,
                   pos, line, items_dict, gene_ids, gene_id, drug_id, ghosts>>

\* lines 78-82: the drug node of the row.
WriteDrugNode ==
    /\ pc = "drug_node"
    /\ IF DRUG_NAME \notin DOMAIN items_dict
       THEN Raise("KeyError") /\ UNCHANGED <<node, gene_idx>>
       ELSE LET w == write_node_edge_item(node, node_header,
                        drug_node_data(drug_id, items_dict))
            IN  IF w.ok
                THEN node' = w.fh /\ gene_idx' = 0 /\ pc' = "next_gene" /\ err' = err
                ELSE Raise("Exception") /\ UNCHANGED <<node, gene_idx>>
    /\ UNCHANGED <<env, node_exists, edge_exists, edge, runs, header_items, pos,
                   line, items_dict, gene_ids, gene_id, drug_id, ghosts>>

\* lines 84-85: for gene_id in gene_ids: gene_id = gene_curie_prefix + gene_id
NextGene ==
    /\ pc = "next_gene"
    /\ IF gene_idx < Len(gene_ids)
       THEN /\ gene_idx' = gene_idx + 1
            /\ gene_id' = gene_curie_prefix \o gene_ids[gene_idx + 1]
            /\ pc' = "gene_node"
       ELSE /\ pc' = "loop"
            /\ UNCHANGED <<gene_idx, gene_id>>
    /\ UNCHANGED <<env, files, err, runs, header_items, pos, line, items_dict,
                   gene_ids, drug_id, ghosts>>

\* lines 86-90: the gene node of the accession.
WriteGeneNode ==
    /\ pc = "gene_node"
    /\ IF GENE \notin DOMAIN items_dict
       THEN Raise("KeyError") /\ UNCHANGED node
       ELSE LET w == write_node_edge_item(node, node_header,
                        gene_node_data(gene_id, items_dict))
            IN  IF w.ok
                THEN node' = w.fh /\ pc' = "edge" /\ err' = err
                ELSE Raise("Exception") /\ UNCHANGED node
    /\ UNCHANGED <<env, node_exists, edge_exists, edge, runs, locals, ghosts>>

\* lines 95-102: the drug -> gene edge of the accession.
WriteEdge ==
    /\ pc = "edge"
    /\ IF ACT_COMMENT \notin DOMAIN items_dict
       THEN Raise("KeyError") /\ UNCHANGED edge
       ELSE LET w == write_node_edge_item(edge, edge_header,
                        edge_data(drug_id, gene_id, items_dict))
            IN  IF w.ok
                THEN edge' = w.fh /\ pc' = "next_gene" /\ err' = err
                ELSE Raise("Exception") /\ UNCHANGED edge
    /\ UNCHANGED <<env, node_exists, node, edge_exists, runs, locals, ghosts>>

Next ==
    \/ DeleteArchive \/ Run \/ OpenNode \/ OpenEdge \/ OpenInput
    \/ WriteNodeHeader \/ WriteEdgeHeader \/ ReadHeader \/ NextLine \/ ParseLine
    \/ FilterOrganism \/ GetGeneIds \/ GetDrugId \/ WriteDrugNode \/ NextGene
    \/ WriteGeneNode \/ WriteEdge

Spec == Init /\ [][Next]_vars

(* ---------------------------- what the claims speak of ----------------- *)
\* The row record of the line in hand, and of every data line of the archive.
CurRow == parse_drug_central_line(line, header_items)
AllRows ==
    [j \in 1..(Len(interactions) - 1) |->
        parse_drug_central_line(interactions[j + 1] \o <<NL>>, header_items)]
RowsBefore == SubSeq(AllRows, 1, pos - 1)

Has(d, k) == k \in DOMAIN d /\ d[k] # <<>>
Get(d, k) == IF k \in DOMAIN d THEN d[k] ELSE <<>>
Matches(r) == r.ok /\ ORGANISM \in DOMAIN r.dict /\ r.dict[ORGANISM] = species
NoTarget(r) == Matches(r) /\ ~Has(r.dict, ACCESSION)
Qualifying(r) ==
    Matches(r) /\ Has(r.dict, ACCESSION) /\ Has(r.dict, STRUCT_ID)
Complete(r) ==
    Qualifying(r) /\ {DRUG_NAME, GENE, ACT_COMMENT} \subseteq DOMAIN r.dict
Faulty(r) ==
    ~r.ok \/ (Matches(r) /\ Has(r.dict, ACCESSION) /\ ~Complete(r))

\* The lines a row gives, written out as the specification words them.
TextLine(fields) == Join(fields, TAB) \o <<NL>>
RowNodeText(d) ==
    LET a == Split(Get(d, ACCESSION), PIPE)
    IN  TextLine(<< <<"DrugCentral:">> \o Get(d, STRUCT_ID), Get(d, DRUG_NAME),
                    <<"biolink:Drug">> >>)
        \o Flatten([i \in 1..Len(a) |->
                      TextLine(<< <<"UniProtKB:">> \o a[i], Get(d, GENE),
                                  <<"biolink:Gene">> >>)])
RowEdgeText(d) ==
    LET a == Split(Get(d, ACCESSION), PIPE)
    IN  Flatten([i \in 1..Len(a) |->
                   TextLine(<< <<"DrugCentral:">> \o Get(d, STRUCT_ID),
                               <<"biolink:interacts_with">>,
                               <<"UniProtKB:">> \o a[i], <<"RO:0002436">>,
                               <<"drug_central">>, Get(d, ACT_COMMENT) >>)])
NodeHeaderFields == << <<"id">>, <<"name">>, <<"category">> >>
EdgeHeaderFields == << <<"subject">>, <<"edge_label">>, <<"object">>,
                       <<"relation">>, <<"provided_by">>, <<"comment">> >>
RefNode(rows) ==
    TextLine(NodeHeaderFields)
    \o Flatten([i \in 1..Len(rows) |->
                  IF Complete(rows[i]) THEN RowNodeText(rows[i].dict) ELSE <<>>])
RefEdge(rows) ==
    TextLine(EdgeHeaderFields)
    \o Flatten([i \in 1..Len(rows) |->
                  IF Complete(rows[i]) THEN RowEdgeText(rows[i].dict) ELSE <<>>])

\* The row in hand has a record (ParseLine has acted on it).
RowParsed == pos >= 1 /\ pc # "parse"
\* run is done with the row in hand.
RowEnded == pos >= 1 /\ pc \in {"loop", "done", "raised"}
\* run has entered its loop.
InLoop ==
    \/ pc \in {"loop", "parse", "filter", "gene_ids", "drug_id", "drug_node",
               "next_gene", "gene_node", "edge", "done"}
    \/ pc = "raised" /\ err # "FileNotFoundError"
RowUntouched == node = row_node /\ edge = row_edge

NodeFields == [i \in 1..Len(FileLines(node)) |-> Split(FileLines(node)[i], TAB)]
EdgeFields == [i \in 1..Len(FileLines(edge)) |-> Split(FileLines(edge)[i], TAB)]
IsGeneNode(f) == Len(f) = 3 /\ f[3] = <<"biolink:Gene">>
IsDrugNode(f) == Len(f) = 3 /\ f[3] = <<"biolink:Drug">>
IsEdge(f) == Len(f) = 6 /\ f[2] = <<"biolink:interacts_with">>
GeneNodes == SelectSeq(NodeFields, IsGeneNode)
DrugNodes == SelectSeq(NodeFields, IsDrugNode)
Edges == SelectSeq(EdgeFields, IsEdge)

(* ---------------------------- C1 --------------------------------------- *)
\* C1: a row whose ORGANISM field is absent from the row record or differs
\* from the species gets no node line and no edge line and raises nothing, and
\* a run that returns leaves the files it would have left without those rows.
C1_OrganismFilter ==
    /\ (RowParsed /\ CurRow.ok /\ ~Matches(CurRow))
          => (pc \in {"filter", "loop", "done"} /\ RowUntouched)
    /\ pc = "done"
          => /\ node = RefNode(SelectSeq(AllRows, Matches))
             /\ edge = RefEdge(SelectSeq(AllRows, Matches))

\* A run has returned whose first row gave lines and whose second row, of
\* another organism, has every other field a qualifying row has.
C1_Witness ==
    /\ pc = "done" /\ pos = 2
    /\ Complete(AllRows[1])
    /\ CurRow.ok /\ ~Matches(CurRow) /\ ORGANISM \in DOMAIN CurRow.dict
    /\ Has(CurRow.dict, ACCESSION) /\ Has(CurRow.dict, STRUCT_ID)
    /\ node = RefNode(<<AllRows[1]>>)

(* ---------------------------- C2 --------------------------------------- *)
\* C2 (as claimed): every row whose organism matches and that has an ACCESSION
\* and a STRUCT_ID gets one drug node line, k gene node lines and k edge lines.
C2_AsClaimed ==
    (RowEnded /\ Qualifying(CurRow))
       => /\ node = row_node \o RowNodeText(CurRow.dict)
          /\ edge = row_edge \o RowEdgeText(CurRow.dict)

\* C2 (amended): a row whose organism matches, whose ACCESSION and STRUCT_ID
\* are present and not empty and whose record has DRUG_NAME, GENE and
\* ACT_COMMENT gets, in this order, one drug node line and k gene node lines,
\* and k edge lines that differ in their object only; nothing is raised.
C2_PerRowEmission ==
    (RowEnded /\ Complete(CurRow))
       => /\ pc # "raised"
          /\ node = row_node \o RowNodeText(CurRow.dict)
          /\ edge = row_edge \o RowEdgeText(CurRow.dict)

\* A row with two accessions has been written.
C2_Witness ==
    /\ RowEnded /\ Complete(CurRow) /\ pc = "loop"
    /\ Len(Split(CurRow.dict[ACCESSION], PIPE)) = 2
    /\ Len(GeneNodes) = 2 /\ Len(Edges) = 2

(* ---------------------------- C3 --------------------------------------- *)
\* C3: a row of the species whose ACCESSION is absent or empty is skipped:
\* no line is written for it, nothing is raised, and a run that returns leaves
\* the files it would have left without those rows.
C3_NoTargetSkipped ==
    /\ (RowParsed /\ NoTarget(CurRow))
          => /\ pc \in {"filter", "gene_ids", "loop", "done"}
             /\ err = "none" /\ RowUntouched
    /\ pc = "done"
          => LET kept == SelectSeq(AllRows, LAMBDA r : ~NoTarget(r))
             IN  node = RefNode(kept) /\ edge = RefEdge(kept)

\* A run has returned that skipped its first row for its empty ACCESSION and
\* wrote the lines of its second row.
C3_Witness ==
    /\ pc = "done" /\ pos = 2
    /\ NoTarget(AllRows[1]) /\ ACCESSION \in DOMAIN AllRows[1].dict
    /\ Complete(AllRows[2])
    /\ node = RefNode(<<AllRows[2]>>)

(* ---------------------------- C4 --------------------------------------- *)
\* C4 (as claimed): a row of the species without STRUCT_ID raises
\* ItemInDictNotFound whatever its other fields are.
C4_AsClaimed ==
    (RowEnded /\ Matches(CurRow) /\ STRUCT_ID \notin DOMAIN CurRow.dict)
       => (pc = "raised" /\ err = "ItemInDictNotFound" /\ RowUntouched)

\* C4 (amended): a row of the species whose ACCESSION is present and not empty
\* and whose record has no STRUCT_ID raises ItemInDictNotFound; the run ends
\* there and no line is written for the row.
C4_MissingStructIdFatal ==
    (RowParsed /\ Matches(CurRow) /\ Has(CurRow.dict, ACCESSION)
        /\ STRUCT_ID \notin DOMAIN CurRow.dict)
       => /\ pc \in {"filter", "gene_ids", "drug_id", "raised"}
          /\ RowUntouched
          /\ RowEnded => (pc = "raised" /\ err = "ItemInDictNotFound")

\* The second row of a run has no STRUCT_ID and has ended the run; the first,
\* of another organism, was skipped.
C4_Witness ==
    /\ pc = "raised" /\ err = "ItemInDictNotFound" /\ pos = 2
    /\ Matches(CurRow) /\ Has(CurRow.dict, ACCESSION)
    /\ STRUCT_ID \notin DOMAIN CurRow.dict
    /\ ~Matches(AllRows[1]) /\ Has(AllRows[1].dict, ACCESSION)
    /\ RowUntouched

(* ---------------------------- C5 --------------------------------------- *)
\* C5: once run is in its loop, and when it has returned, each file starts
\* with its fixed header, the header is on no other line, and every other line
\* has as many tab-separated fields as the header.
C5_OutputSchema ==
    InLoop =>
       /\ Len(NodeFields) >= 1 /\ NodeFields[1] = NodeHeaderFields
       /\ \A i \in 2..Len(NodeFields) :
             NodeFields[i] # NodeHeaderFields /\ Len(NodeFields[i]) = 3
       /\ Len(EdgeFields) >= 1 /\ EdgeFields[1] = EdgeHeaderFields
       /\ \A i \in 2..Len(EdgeFields) :
             EdgeFields[i] # EdgeHeaderFields /\ Len(EdgeFields[i]) = 6

\* A run has returned with node and edge lines below the headers.
C5_Witness == pc = "done" /\ Len(NodeFields) >= 4 /\ Len(EdgeFields) >= 3

(* ---------------------------- C6 --------------------------------------- *)
\* C6: a data line whose field count (strip, then split on tab) is not the
\* header's ends the run with a data-shape error and gets no line; every row
\* that is filtered or written has a record whose keys are the header names,
\* each with the field of its own position.
C6_SchemaMismatch ==
    LET data == Split(Strip(line), TAB)
    IN  /\ (RowParsed /\ Len(data) # Len(header_items))
              => (pc = "raised" /\ err = "DataShapeError" /\ RowUntouched)
        /\ (RowParsed /\ ~(pc = "raised" /\ err = "DataShapeError"))
              => /\ Len(data) = Len(header_items)
                 /\ DOMAIN items_dict =
                       {header_items[i] : i \in 1..Len(header_items)}
                 /\ \A i \in 1..Len(header_items) :
                       items_dict[header_items[i]] = RemoveQuotes(data[i])

\* A line that lost its empty last field to strip has ended the run, after a
\* first row that was written.
C6_Witness ==
    /\ pc = "raised" /\ err = "DataShapeError" /\ pos = 2
    /\ Len(Split(Strip(line), TAB)) = Len(header_items) - 1
    /\ Len(DrugNodes) = 1

(* ---------------------------- C7 --------------------------------------- *)
\* C7: a run that follows another run, the archive being what it was, ends
\* (returning or raising) with the files the earlier run left.
C7_Idempotent ==
    (runs >= 2 /\ pc \in {"done", "raised"} /\ prev_arch = run_arch)
       => (node = prev_node /\ edge = prev_edge)

\* A second run has raised at the row at which the first did, with lines in
\* both files.
C7_Witness ==
    /\ runs = 2 /\ pc = "raised" /\ run_arch /\ prev_arch /\ pos = 2
    /\ Len(DrugNodes) = 1 /\ Len(Edges) >= 1

(* ---------------------------- C8 --------------------------------------- *)
\* C8: the rows are taken in the order of the archive, one at a time; run
\* never gets past a row that raises; the files hold the lines of the rows
\* before the one in hand and a prefix of the lines of the row in hand; and a
\* run that has raised writes nothing more.
C8_Abort ==
    /\ [](InLoop =>
            /\ \A j \in 1..(pos - 1) : ~Faulty(AllRows[j])
            /\ (pc \in {"loop", "done"} /\ pos >= 1) => ~Faulty(AllRows[pos])
            /\ IF pos = 0 \/ ~CurRow.ok \/ pc = "parse"
               THEN node = RefNode(RowsBefore) /\ edge = RefEdge(RowsBefore)
               ELSE /\ IsPrefix(RefNode(RowsBefore), node)
                    /\ IsPrefix(node, RefNode(RowsBefore) \o RowNodeText(CurRow.dict))
                    /\ IsPrefix(RefEdge(RowsBefore), edge)
                    /\ IsPrefix(edge, RefEdge(RowsBefore) \o RowEdgeText(CurRow.dict)))
    /\ [][/\ runs' = runs => pos' \in {pos, pos + 1}
          /\ pc = "raised" => /\ UNCHANGED <<node, edge>>
                              /\ \/ pc' = "raised" /\ pos' = pos
                                 \/ pc' = "open_node" /\ runs' = runs + 1
         ]_vars

\* A run has raised at its first row with that row's drug node and first gene
\* node written and its edge not; the row after it qualifies and is not read.
C8_Witness ==
    /\ pc = "raised" /\ err = "KeyError" /\ pos = 1
    /\ Len(interactions) = 3 /\ Qualifying(AllRows[2])
    /\ Len(DrugNodes) = 1 /\ Len(GeneNodes) = 1 /\ Len(Edges) = 0

(* ---------------------------- C9 --------------------------------------- *)
\* C9: the node file and the edge file are opened, and so emptied, before the
\* archive is; a run that cannot open the archive raises with both files there
\* and empty and with no line read.
C9_OpenOrder ==
    /\ pc = "open_input"
          => (node_exists /\ edge_exists /\ node = <<>> /\ edge = <<>>)
    /\ (pc = "raised" /\ err = "FileNotFoundError")
          => /\ node_exists /\ edge_exists /\ node = <<>> /\ edge = <<>>
             /\ pos = 0 /\ header_items = <<>> /\ line = <<>>

\* A run has raised for the missing archive after a run that left lines in
\* both files.
C9_Witness ==
    /\ pc = "raised" /\ err = "FileNotFoundError" /\ runs = 2
    /\ Len(FileLines(prev_node)) >= 3 /\ Len(FileLines(prev_edge)) >= 2
    /\ node = <<>> /\ edge = <<>>

(* ---------------------------- C10 -------------------------------------- *)
PairedUpTo(n) == \A j \in 1..n : GeneNodes[j][1] = Edges[j][3]
GenePairing ==
    /\ pc \in {"loop", "done"}
          => (Len(GeneNodes) = Len(Edges) /\ PairedUpTo(Len(Edges)))
    /\ /\ Len(Edges) <= Len(GeneNodes)
       /\ Len(GeneNodes) <= Len(Edges) + 1
       /\ PairedUpTo(Len(Edges))

\* C10 (as claimed): gene nodes and edges pair up, and at the row boundaries
\* and in the last state of a run there are as many drug node lines as rows
\* that passed the organism, ACCESSION and STRUCT_ID checks.
C10_AsClaimed ==
    InLoop =>
       /\ GenePairing
       /\ pc \in {"loop", "done", "raised"} => Len(DrugNodes) = passed

\* C10 (amended): gene nodes and edges pair up as claimed, and there are as
\* many drug node lines as rows that passed the three checks, less one while
\* the row in hand has passed them and its drug node line is not written,
\* which is also where a run that raises on that row's missing DRUG_NAME ends.
C10_Pairing ==
    InLoop =>
       /\ GenePairing
       /\ Len(DrugNodes) =
             passed - (IF \/ pc = "drug_node"
                          \/ /\ pc = "raised" /\ err = "KeyError"
                             /\ DRUG_NAME \notin DOMAIN items_dict
                       THEN 1 ELSE 0)

\* A run has raised on a missing ACT_COMMENT: one gene node more than edges.
C10_Witness ==
    /\ pc = "raised" /\ err = "KeyError"
    /\ Len(GeneNodes) = Len(Edges) + 1 /\ Len(DrugNodes) = passed
    /\ passed >= 1

====
